---- MODULE Spec2Model ----
(***************************************************************************)
(* A model of update.go, the updater of the per-version Docker build       *)
(* directories of Atlassian Crowd: main, getDirs, getVersions,             *)
(* fetchLatestTarVersions, the package filter and Version.MajorMinor.      *)
(*                                                                         *)
(* Go strings whose content the program inspects (file names, version      *)
(* strings, directory names) are sequences of one-character strings.       *)
(* Strings that are only compared or printed (feed URLs, messages) are     *)
(* TLA+ strings.                                                           *)
(***************************************************************************)
EXTENDS Integers, Sequences, FiniteSets, TLC

VARIABLES
    web,          \* what each feed URL answers to http.Get
    pc,           \* main's position (or the position of a harness)
    versionDirs,  \* main: the result of getDirs
    versions,     \* main: the result of getVersions
    idx,          \* main: index of the directory the loop is at (1-based)
    handed,       \* history: the calls update(dir, p), in order
    updated,      \* history: the directories whose update returned nil
    disk,         \* the files written so far, per directory
    exitMsg,      \* what main printed before os.Exit(1)
    fName,        \* filter harness: the archive URL under test
    fKept,        \* filter harness: whether the record was kept
    mmIn,         \* MajorMinor harness: the version string
    mmOut,        \* MajorMinor harness: MajorMinor(mmIn)
    mmAgain       \* MajorMinor harness: MajorMinor(mmOut)

vars == <<web, pc, versionDirs, versions, idx, handed, updated, disk, exitMsg,
          fName, fKept, mmIn, mmOut, mmAgain>>

mainVars == <<web, versionDirs, versions, idx, handed, updated, disk, exitMsg>>
filterVars == <<fName, fKept>>
mmVars == <<mmIn, mmOut, mmAgain>>

----------------------------------------------------------------------------
(* Bounds of the model *)

\* total number of package records over the three feeds (getVersions runs)
MaxRecords == 3
\* total number of package records over the three feeds (whole-program runs)
MaxMainRecords == 2
\* number of words an archive URL under the filter is made of
MaxWords == 3
\* length of a version string given to MajorMinor
MaxVerLen == 5

----------------------------------------------------------------------------
(* Go strings *)

\* strings.Contains
Contains(s, sub) ==
    \E i \in 0..(Len(s) - Len(sub)) : SubSeq(s, i + 1, i + Len(sub)) = sub

\* strings.HasPrefix
HasPrefix(s, prefix) ==
    Len(s) >= Len(prefix) /\ SubSeq(s, 1, Len(prefix)) = prefix

\* s[from:to] with Go's 0-based, half-open indices
Slice(s, from, to) == SubSeq(s, from + 1, to)

\* bytes.Index / strings.Index for a one-element pattern: 0-based, -1 if absent
Index(s, c) ==
    IF \E i \in 1..Len(s) : s[i] = c
    THEN (CHOOSE i \in 1..Len(s) : s[i] = c /\ \A j \in 1..(i - 1) : s[j] # c) - 1
    ELSE -1

\* bytes.LastIndex for a one-element pattern: 0-based, -1 if absent
LastIndex(s, c) ==
    IF \E i \in 1..Len(s) : s[i] = c
    THEN (CHOOSE i \in 1..Len(s) : s[i] = c /\ \A j \in (i + 1)..Len(s) : s[j] # c) - 1
    ELSE -1

RECURSIVE StripTrailingSlashes(_)
StripTrailingSlashes(p) ==
    IF Len(p) > 0 /\ p[Len(p)] = "/"
    THEN StripTrailingSlashes(SubSeq(p, 1, Len(p) - 1))
    ELSE p

\* path.Base
Base(p) ==
    IF p = <<>> THEN <<".">>
    ELSE LET q == StripTrailingSlashes(p)
             i == LastIndex(q, "/")
             r == IF i >= 0 THEN Slice(q, i + 1, Len(q)) ELSE q
         IN IF r = <<>> THEN <<"/">> ELSE r

----------------------------------------------------------------------------
(* Version.MajorMinor *)

\* versionSeparator = regexp.MustCompile(`(\.|-)`): one '.' or one '-'
versionSeparator(c) == c = "." \/ c = "-"

\* the matches versionSeparator.FindAllStringIndex(s, n) returns: the 0-based
\* start offsets of the first n separator characters (each match is one
\* character long), in order
RECURSIVE FindAllIndexFrom(_, _, _)
FindAllIndexFrom(s, from, n) ==
    IF n = 0 \/ from > Len(s) THEN <<>>
    ELSE IF versionSeparator(s[from])
         THEN <<from - 1>> \o FindAllIndexFrom(s, from + 1, n - 1)
         ELSE FindAllIndexFrom(s, from + 1, n)

\* the loop of regexp.Split over the matches
RECURSIVE SplitLoop(_, _, _, _, _, _)
SplitLoop(s, matches, n, strs, beg, end) ==
    IF matches = <<>> \/ (n > 0 /\ Len(strs) = n - 1)
    THEN IF end # Len(s) THEN Append(strs, Slice(s, beg, Len(s))) ELSE strs
    ELSE LET m0 == Head(matches)
             m1 == m0 + 1
         IN SplitLoop(s, Tail(matches), n,
                      IF m1 # 0 THEN Append(strs, Slice(s, beg, m0)) ELSE strs,
                      m1, m0)

\* the n of versionSeparator.Split(string(v), 3)
SplitLimit == 3

\* versionSeparator.Split(s, n), n > 0
Split(s, n) ==
    IF s = <<>> THEN << <<>> >>
    ELSE SplitLoop(s, FindAllIndexFrom(s, 1, n), n, <<>>, 0, 0)

\* the fallback key "0.0"
ZeroZero == <<"0", ".", "0">>

\* a variant that splits in two pieces only
MajorMinor_splitInTwo(v) ==
    LET parts == Split(v, SplitLimit - 1)
    IN IF Len(parts) < 2 THEN ZeroZero
       ELSE parts[1] \o <<".">> \o parts[2]

MajorMinor(v) ==
    LET parts == Split(v, SplitLimit)
    IN IF Len(parts) < 2 THEN ZeroZero
       ELSE parts[1] \o <<".">> \o parts[2]

----------------------------------------------------------------------------
(* The package filter of fetchLatestTarVersions *)

W_targz      == <<".", "t", "a", "r", ".", "g", "z">>
W_enterprise == <<"e", "n", "t", "e", "r", "p", "r", "i", "s", "e">>
W_standalone == <<"s", "t", "a", "n", "d", "a", "l", "o", "n", "e">>
W_cluster    == <<"c", "l", "u", "s", "t", "e", "r">>
W_war        == <<"w", "a", "r">>

\* a variant that lets "war" archives through
Skipped_noWar(filename) ==
    \/ ~Contains(filename, W_targz)
    \/ (Contains(filename, W_enterprise) /\ ~Contains(filename, W_standalone))
    \/ Contains(filename, W_cluster)

\* the condition under which the loop skips a record (`continue`)
Skipped(filename) ==
    \/ ~Contains(filename, W_targz)
    \/ (Contains(filename, W_enterprise) /\ ~Contains(filename, W_standalone))
    \/ Contains(filename, W_cluster)
    \/ Contains(filename, W_war)

\* whether a record with this archive URL survives the filter
Kept(zipUrl) == ~Skipped(Base(zipUrl))

----------------------------------------------------------------------------
(* time.Time and AtlassianTime *)

UpperCase == <<"A", "B", "C", "D", "E", "F", "G", "H", "I", "J", "K", "L", "M",
               "N", "O", "P", "Q", "R", "S", "T", "U", "V", "W", "X", "Y", "Z">>
LowerCase == <<"a", "b", "c", "d", "e", "f", "g", "h", "i", "j", "k", "l", "m",
               "n", "o", "p", "q", "r", "s", "t", "u", "v", "w", "x", "y", "z">>
Digits    == <<"0", "1", "2", "3", "4", "5", "6", "7", "8", "9">>

\* a letter in lower case, any other character as it is
Fold(c) ==
    IF \E i \in 1..Len(UpperCase) : UpperCase[i] = c
    THEN LowerCase[CHOOSE i \in 1..Len(UpperCase) : UpperCase[i] = c]
    ELSE c

\* time's match: equal but for the case of letters
Match(s1, s2) ==
    Len(s1) = Len(s2) /\ \A i \in 1..Len(s1) : Fold(s1[i]) = Fold(s2[i])

isDigit(s, i) == i < Len(s) /\ \E d \in 1..Len(Digits) : Digits[d] = s[i + 1]

DigitValue(c) == (CHOOSE d \in 1..Len(Digits) : Digits[d] = c) - 1

\* the number a string of digits denotes
RECURSIVE Atoi(_)
Atoi(s) == IF s = <<>> THEN 0
           ELSE Atoi(SubSeq(s, 1, Len(s) - 1)) * 10 + DigitValue(s[Len(s)])

\* time's shortMonthNames
shortMonthNames ==
    << <<"J", "a", "n">>, <<"F", "e", "b">>, <<"M", "a", "r">>, <<"A", "p", "r">>,
       <<"M", "a", "y">>, <<"J", "u", "n">>, <<"J", "u", "l">>, <<"A", "u", "g">>,
       <<"S", "e", "p">>, <<"O", "c", "t">>, <<"N", "o", "v">>, <<"D", "e", "c">> >>

\* time's lookup(shortMonthNames, val): the number of the month whose name
\* starts val, the case of letters ignored, or 0
lookupMonth(val) ==
    IF \E m \in 1..Len(shortMonthNames) :
         /\ Len(val) >= Len(shortMonthNames[m])
         /\ Match(SubSeq(val, 1, Len(shortMonthNames[m])), shortMonthNames[m])
    THEN CHOOSE m \in 1..Len(shortMonthNames) :
           /\ Len(val) >= Len(shortMonthNames[m])
           /\ Match(SubSeq(val, 1, Len(shortMonthNames[m])), shortMonthNames[m])
    ELSE 0

isLeap(year) == year % 4 = 0 /\ (year % 100 # 0 \/ year % 400 = 0)

\* time's daysIn(m, year)
DaysIn(m, year) ==
    IF m = 2 /\ isLeap(year) THEN 29
    ELSE <<31, 28, 31, 30, 31, 30, 31, 31, 30, 31, 30, 31>>[m]

\* the days of the months of the year before month m
RECURSIVE DaysBefore(_, _)
DaysBefore(m, year) ==
    IF m = 1 THEN 0 ELSE DaysBefore(m - 1, year) + DaysIn(m - 1, year)

\* the instant of midnight UTC of a date, counted in days from 01-Jan-0001
Date(year, m, day) ==
    LET y == year - 1
    IN 365 * y + (y \div 4) - (y \div 100) + (y \div 400) + DaysBefore(m, year) + (day - 1)

ParseError == [err |-> TRUE, t |-> 0]

\* time.Parse("02-Jan-2006", str): two digits of day, "-", a short month name
\* in any case, "-", four digits of year, and nothing more; the day must be a
\* day of that month of that year
ParseTime(str) ==
    IF ~(isDigit(str, 0) /\ isDigit(str, 1)) THEN ParseError
    ELSE IF ~(Len(str) >= 3 /\ str[3] = "-") THEN ParseError
    ELSE LET day   == Atoi(SubSeq(str, 1, 2))
             afterDay == SubSeq(str, 4, Len(str))
             month == lookupMonth(afterDay)
         IN IF month = 0 THEN ParseError
            ELSE LET afterMonth == SubSeq(afterDay, Len(shortMonthNames[month]) + 1,
                                          Len(afterDay))
                 IN IF ~(Len(afterMonth) >= 1 /\ afterMonth[1] = "-") THEN ParseError
                    ELSE LET value == Tail(afterMonth)
                         IN IF Len(value) < 4 \/ ~isDigit(value, 0) THEN ParseError
                            ELSE IF \E i \in 1..3 : ~isDigit(value, i) THEN ParseError
                            ELSE IF Len(value) > 4 THEN ParseError
                            ELSE LET year == Atoi(SubSeq(value, 1, 4))
                                 IN IF day < 1 \/ day > DaysIn(month, year)
                                    THEN ParseError
                                    ELSE [err |-> FALSE, t |-> Date(year, month, day)]

\* a variant that is not strict
After_orEqual(t, u) == t >= u

\* a variant that compares the wrong way round
After_before(t, u) == t < u

\* time.Time.After
After(t, u) == t > u

----------------------------------------------------------------------------
(* map[string]Package *)

EmptyMap == [k \in {} |-> TRUE]

\* m[k] = v
Put(m, k, v) == [x \in (DOMAIN m) \cup {k} |-> IF x = k THEN v ELSE m[x]]

----------------------------------------------------------------------------
(* fetchLatestTarVersions *)

archiveUrl == "https://my.atlassian.com/download/feeds/archived/crowd.json"
currentUrl == "https://my.atlassian.com/download/feeds/current/crowd.json"
eapUrl     == "https://my.atlassian.com/download/feeds/eap/crowd.json"

NoError == "nil"

\* http.Get is called with no timeout: on a server that accepts the connection
\* and never answers it does not return, and neither do its callers. Hangs
\* stands in the place of the error for "the call has not returned".
Hangs == "http.Get does not return"

\* what json.Unmarshal makes of the value a record gives under the key of the
\* Latest field, which has no tag and so takes the key "Latest" in any case of
\* letters: a boolean is stored, no key or null leaves the zero value, any
\* other value is an error
DecodeLatest(value) ==
    CASE value = "true"               -> [err |-> FALSE, b |-> TRUE]
      [] value \in {"false", "absent", "null"} -> [err |-> FALSE, b |-> FALSE]
      [] OTHER                        -> [err |-> TRUE, b |-> FALSE]

\* a Package as json.Unmarshal fills it from one record of the feed
Package(rec) ==
    [ZipURL   |-> rec.zipUrl,
     Version  |-> rec.version,
     Released |-> ParseTime(rec.released).t,
     Latest   |-> DecodeLatest(rec.latest).b]

\* json.Unmarshal(data[start+1:end], &archives). The text of a response is a
\* sequence of tokens in which "J" stands for the text of a JSON array, the
\* array being the response's json field, and "null" for the JSON null, which
\* decodes into a nil slice with no error; any other payload does not decode,
\* AtlassianTime.UnmarshalJSON fails the decoding on a date time.Parse
\* rejects, and so does a value for Latest that is no boolean.
Unmarshal(payload, json) ==
    IF payload = <<"null">> THEN [err |-> NoError, archives |-> <<>>]
    ELSE IF payload # <<"J">> THEN [err |-> "json: cannot unmarshal", archives |-> <<>>]
    ELSE IF \E i \in 1..Len(json) : ParseTime(json[i].released).err
    THEN [err |-> "parsing time", archives |-> <<>>]
    ELSE IF \E i \in 1..Len(json) : DecodeLatest(json[i].latest).err
    THEN [err |-> "json: cannot unmarshal", archives |-> <<>>]
    ELSE [err |-> NoError, archives |-> [i \in 1..Len(json) |-> Package(json[i])]]

\* the loop over the decoded archives: the filter, then the latest per key
RECURSIVE LatestTar(_, _)
LatestTar(archives, acc) ==
    IF archives = <<>> THEN acc
    ELSE LET archive  == Head(archives)
             filename == Base(archive.ZipURL)
         IN IF Skipped(filename) THEN LatestTar(Tail(archives), acc)
            ELSE LET majmin == MajorMinor(archive.Version)
                 IN IF \/ majmin \notin DOMAIN acc
                       \/ After(archive.Released, acc[majmin].Released)
                    THEN LatestTar(Tail(archives), Put(acc, majmin, archive))
                    ELSE LatestTar(Tail(archives), acc)

\* fetchLatestTarVersions(url): (versions, err); versions is nil on an error
fetchLatestTarVersions(url) ==
    LET resp == web[url]
    IN IF resp.get = "never" THEN [versions |-> EmptyMap, err |-> Hangs]
       ELSE IF resp.get = "error" THEN [versions |-> EmptyMap, err |-> "http.Get"]
       ELSE LET data  == resp.text
                start == Index(data, "(")
                end   == LastIndex(data, ")")
            IN IF ~(end > start /\ start > -1)
               THEN [versions |-> EmptyMap, err |-> "error in jsonp content"]
               ELSE LET dec == Unmarshal(Slice(data, start + 1, end), resp.json)
                    IN IF dec.err # NoError
                       THEN [versions |-> EmptyMap, err |-> dec.err]
                       ELSE [versions |-> LatestTar(dec.archives, EmptyMap),
                             err |-> NoError]

----------------------------------------------------------------------------
(* getVersions *)

\* a nil map[string]Package
NilVersions == [nil |-> TRUE, m |-> EmptyMap]

\* a variant that reads the primary feed first
FeedOrder_latestFirst(latestFeed, otherFeeds) == <<latestFeed>> \o otherFeeds

\* append(otherFeeds, latestFeed)
FeedOrder(latestFeed, otherFeeds) == Append(otherFeeds, latestFeed)

\* a variant that never marks
MergeFeed_unmarked(acc, newVersions, url, latestFeed) ==
    [v \in (DOMAIN acc) \cup (DOMAIN newVersions) |->
        IF v \in DOMAIN newVersions THEN newVersions[v] ELSE acc[v]]

\* the inner loop: every entry of newVersions is written over versions[v],
\* marked Latest when the feed is latestFeed
MergeFeed(acc, newVersions, url, latestFeed) ==
    [v \in (DOMAIN acc) \cup (DOMAIN newVersions) |->
        IF v \in DOMAIN newVersions
        THEN IF url = latestFeed
             THEN [newVersions[v] EXCEPT !.Latest = TRUE]
             ELSE newVersions[v]
        ELSE acc[v]]

\* a variant that returns the map built so far with the error
getVersionsLoop_keepPartial(urls, latestFeed, acc) ==
    LET F[i \in 0..Len(urls)] ==
            IF i = 0 THEN [versions |-> [nil |-> FALSE, m |-> acc], err |-> NoError]
            ELSE IF F[i - 1].err # NoError THEN F[i - 1]
            ELSE LET r == fetchLatestTarVersions(urls[i])
                 IN IF r.err # NoError
                    THEN [versions |-> F[i - 1].versions, err |-> r.err]
                    ELSE [versions |-> [nil |-> FALSE,
                                        m |-> MergeFeed(F[i - 1].versions.m, r.versions,
                                                        urls[i], latestFeed)],
                          err |-> NoError]
    IN F[Len(urls)]

\* the outer loop over the feeds, from the map built so far
RECURSIVE getVersionsLoop(_, _, _)
getVersionsLoop(urls, latestFeed, acc) ==
    IF urls = <<>> THEN [versions |-> [nil |-> FALSE, m |-> acc], err |-> NoError]
    ELSE LET url == Head(urls)
             r   == fetchLatestTarVersions(url)
         IN IF r.err # NoError THEN [versions |-> NilVersions, err |-> r.err]
            ELSE getVersionsLoop(Tail(urls), latestFeed,
                                 MergeFeed(acc, r.versions, url, latestFeed))

\* getVersions(latestFeed, otherFeeds...): (versions, err)
getVersions(latestFeed, otherFeeds) ==
    getVersionsLoop(FeedOrder(latestFeed, otherFeeds), latestFeed, EmptyMap)

----------------------------------------------------------------------------
(* The feeds the runs are given *)

W_software == <<"s", "o", "f", "t", "w", "a", "r", "e">>
W_crowd    == <<"c", "r", "o", "w", "d">>
W_zip      == <<".", "z", "i", "p">>

V431 == <<"4", ".", "3", ".", "1">>
V432 == <<"4", ".", "3", ".", "2">>
V435 == <<"4", ".", "3", ".", "5">>
V440 == <<"4", ".", "4", ".", "0">>
V432s == V432 \o <<"-">> \o W_standalone

\* 10-Jan-2021
Jan10 == <<"1", "0", "-", "J", "a", "n", "-", "2", "0", "2", "1">>
\* 10-jan-2021: the same day, as time.Parse reads it
Jan10lower == <<"1", "0", "-", "j", "a", "n", "-", "2", "0", "2", "1">>
\* 01-Mar-2021
Mar01 == <<"0", "1", "-", "M", "a", "r", "-", "2", "0", "2", "1">>
\* 29-FEB-2024, a day of a leap year only
Feb29 == <<"2", "9", "-", "F", "E", "B", "-", "2", "0", "2", "4">>
\* 29-Feb-2021, no day of 2021
Feb29of2021 == <<"2", "9", "-", "F", "e", "b", "-", "2", "0", "2", "1">>

Download(name) == W_software \o <<"/">> \o W_crowd \o <<"-">> \o name

\* a record of the feed: the keys zipUrl, version and released, and no key for
\* Latest
Record(zipUrl, version, released) ==
    [zipUrl |-> zipUrl, version |-> version, released |-> released,
     latest |-> "absent"]

\* software/crowd-4.3.1.tar.gz
R431 == Record(Download(V431 \o W_targz), V431, Jan10)
\* the same with "latest": true
R431L == [R431 EXCEPT !.latest = "true"]
\* software/crowd-4.3.2.tar.gz
R432 == Record(Download(V432 \o W_targz), V432, Mar01)
\* software/crowd-4.3.2-enterprise-standalone.tar.gz, released the same day
R432s == Record(Download(V432 \o <<"-">> \o W_enterprise \o <<"-">>
                         \o W_standalone \o W_targz), V432s, Mar01)
\* software/crowd-4.4.0.tar.gz
R440 == Record(Download(V440 \o W_targz), V440, Jan10lower)
\* software/crowd-4.3.5-war.tar.gz: the newest of all, and not an archive to install
R435war == Record(Download(V435 \o <<"-">> \o W_war \o W_targz), V435, Feb29)
\* a record whose date time.Parse rejects
RBadDate == Record(Download(V431 \o W_targz), V431, Feb29of2021)
\* a record with "latest": "yes"
RBadLatest == [R431 EXCEPT !.latest = "yes"]

Pool == {R431, R431L, R432, R432s, R440, R435war}

\* the sequences of at most n records of the pool, none twice (a feed names a
\* package once)
RecordSeqs(n) ==
    UNION {{s \in [1..k -> Pool] : \A i, j \in 1..k : i # j => s[i] # s[j]} : k \in 0..n}

\* downloads([...])
Body(recs) == [get |-> "ok", text |-> <<"downloads", "(", "J", ")">>, json |-> recs]

\* responses getVersions fails on: an error of http.Get, no parentheses, ")"
\* before "(", a payload that is no JSON array
Malformed ==
    {[get |-> "error", text |-> <<>>, json |-> <<>>],
     [get |-> "ok", text |-> <<"J">>, json |-> <<>>],
     [get |-> "ok", text |-> <<")", "J", "(">>, json |-> <<>>],
     [get |-> "ok", text |-> <<"downloads", "(", "<html>", ")">>, json |-> <<>>]}

\* downloads(null): no record, and no error
NullBody == [get |-> "ok", text |-> <<"downloads", "(", "null", ")">>, json |-> <<>>]

\* a server that never answers
Silent == [get |-> "never", text |-> <<>>, json |-> <<>>]

\* the responses that hold at most n records
Responses(n) ==
    Malformed \cup {Silent, NullBody} \cup {Body(s) : s \in RecordSeqs(n)}
              \cup (IF n >= 1 THEN {Body(<<RBadDate>>), Body(<<RBadLatest>>)} ELSE {})

\* the feeds hold at most n records together
InitWeb(n) ==
    \E a \in Responses(n) :
      \E e \in Responses(n - Len(a.json)) :
        \E c \in Responses(n - Len(a.json) - Len(e.json)) :
          web = (archiveUrl :> a) @@ (eapUrl :> e) @@ (currentUrl :> c)

----------------------------------------------------------------------------
(* getDirs *)

D_git == <<".", "g", "i", "t">>
D_40  == <<"4", ".", "0">>
D_43  == <<"4", ".", "3">>
D_44  == <<"4", ".", "4">>
D_tmpl == <<"D", "o", "c", "k", "e", "r", "f", "i", "l", "e", ".", "t", "m", "p", "l">>

Dir(name)  == [name |-> name, isDir |-> TRUE]
File(name) == [name |-> name, isDir |-> FALSE]

\* what ioutil.ReadDir(".") may return: the entries sorted by name, or an error
Listings ==
    {[err |-> TRUE,  entries |-> <<>>],
     [err |-> FALSE, entries |-> <<Dir(D_git), Dir(D_43), File(D_tmpl)>>],
     [err |-> FALSE, entries |-> <<Dir(D_43), Dir(D_44)>>],
     [err |-> FALSE, entries |-> <<Dir(D_40), Dir(D_43), Dir(D_44)>>],
     [err |-> FALSE, entries |-> <<Dir(D_43), Dir(V435), Dir(D_44)>>]}

\* the loop of getDirs: the names of the directories that do not start with "."
RECURSIVE getDirs(_)
getDirs(entries) ==
    IF entries = <<>> THEN <<>>
    ELSE LET entry == Head(entries)
         IN IF entry.isDir /\ ~HasPrefix(entry.name, <<".">>)
            THEN <<entry.name>> \o getDirs(Tail(entries))
            ELSE getDirs(Tail(entries))

----------------------------------------------------------------------------
(* update *)

NoPackage == [ZipURL |-> <<>>, Version |-> <<>>, Released |-> 0, Latest |-> FALSE]

\* the Dockerfile and the docker-entrypoint.sh of a directory: what each holds
\* and its permission bits
Present ==
    [dockerfile |-> "old", dockerfileMode |-> "old", pkg |-> NoPackage,
     entrypoint |-> "old", mode |-> "old"]

\* the files a directory may hold before update: each of the two is there or not
Priors ==
    {[Present EXCEPT !.dockerfile = d, !.dockerfileMode = dm,
                     !.entrypoint = e, !.mode = em] :
        <<d, dm>> \in {<<"old", "old">>, <<"absent", "none">>},
        <<e, em>> \in {<<"old", "old">>, <<"absent", "none">>}}

\* the mode of a file after os.OpenFile(name, O_CREATE|O_WRONLY|O_TRUNC, perm):
\* perm less the umask when the call creates the file, as before otherwise
OpenFileMode(content, mode, perm) ==
    IF content = "absent" THEN perm \o " &^ umask" ELSE mode

\* where update(dir, pkg) may stop, and what it returns there
UpdateOutcomes == {"open", "execute", "copyFile open", "copyFile copy", "chmod", "nil"}

\* the files of the directory, which were before, after update(dir, pkg) that
\* stops at outcome: os.OpenFile creates or empties the Dockerfile, tmpl.Execute
\* writes it from pkg, copyFile creates or empties docker-entrypoint.sh and
\* writes it, os.Chmod sets its mode
update(before, pkg, outcome) ==
    LET opened == [before EXCEPT
                     !.dockerfile = "truncated",
                     !.dockerfileMode = OpenFileMode(before.dockerfile,
                                                     before.dockerfileMode, "0644")]
        executed == [opened EXCEPT !.dockerfile = "written", !.pkg = pkg]
        created  == [executed EXCEPT
                       !.entrypoint = "truncated",
                       !.mode = OpenFileMode(before.entrypoint, before.mode, "0764")]
        copied   == [created EXCEPT !.entrypoint = "copied"]
    IN CASE outcome = "open"          -> before
         [] outcome = "execute"       -> opened
         [] outcome = "copyFile open" -> executed
         [] outcome = "copyFile copy" -> created
         [] outcome = "chmod"         -> copied
         [] outcome = "nil"           -> [copied EXCEPT !.mode = "0764"]

----------------------------------------------------------------------------
(* main *)

NoMessage == [text |-> "", about |-> <<>>]

\* main's position once the directories before index i are done
AfterDir(dirs, i) == IF i > Len(dirs) THEN "exit 0" ELSE "loop"

harnessIdle ==
    /\ fName = <<>> /\ fKept = FALSE
    /\ mmIn = <<>> /\ mmOut = <<>> /\ mmAgain = <<>>

Init ==
    /\ InitWeb(MaxMainRecords)
    /\ pc = "getDirs"
    /\ versionDirs = <<>>
    /\ versions = NilVersions
    /\ idx = 1
    /\ handed = <<>>
    /\ updated = <<>>
    /\ disk = EmptyMap
    /\ exitMsg = NoMessage
    /\ harnessIdle

\* versionDirs, err := getDirs(".")
GetDirs ==
    /\ pc = "getDirs"
    /\ \E listing \in Listings :
         IF listing.err
         THEN /\ pc' = "exit 1"
              /\ exitMsg' = [text |-> "error fetching version dirs:", about |-> <<>>]
              /\ UNCHANGED versionDirs
         ELSE /\ pc' = "getVersions"
              /\ versionDirs' = getDirs(listing.entries)
              /\ UNCHANGED exitMsg
    /\ UNCHANGED <<web, versions, idx, handed, updated, disk, filterVars, mmVars>>

\* versions, err := getVersions(currentUrl, archiveUrl, eapUrl)
GetVersions ==
    /\ pc = "getVersions"
    /\ LET r == getVersions(currentUrl, <<archiveUrl, eapUrl>>)
       IN IF r.err = Hangs
          THEN /\ pc' = "http.Get"
               /\ UNCHANGED <<versions, exitMsg>>
          ELSE /\ versions' = r.versions
               /\ IF r.err # NoError
                  THEN /\ pc' = "exit 1"
                       /\ exitMsg' = [text |-> "error reading atlassian feeds:",
                                      about |-> <<>>]
                  ELSE /\ pc' = AfterDir(versionDirs, idx)
                       /\ UNCHANGED exitMsg
    /\ UNCHANGED <<web, versionDirs, idx, handed, updated, disk, filterVars, mmVars>>

\* a variant that goes on to the next directory
MissingVersion_skip ==
    /\ pc = "loop"
    /\ versionDirs[idx] \notin DOMAIN versions.m
    /\ idx' = idx + 1
    /\ pc' = AfterDir(versionDirs, idx + 1)
    /\ UNCHANGED <<web, versionDirs, versions, handed, updated, disk, exitMsg,
                   filterVars, mmVars>>

\* one turn of the loop: versions has no entry for dir
MissingVersion ==
    /\ pc = "loop"
    /\ versionDirs[idx] \notin DOMAIN versions.m
    /\ pc' = "exit 1"
    /\ exitMsg' = [text |-> "can't find url for version", about |-> versionDirs[idx]]
    /\ UNCHANGED <<web, versionDirs, versions, idx, handed, updated, disk,
                   filterVars, mmVars>>

\* a variant that goes on after a failed update
UpdateDir_continueOnError ==
    /\ pc = "loop"
    /\ versionDirs[idx] \in DOMAIN versions.m
    /\ LET dir == versionDirs[idx]
           p   == versions.m[dir]
       IN \E before \in Priors, outcome \in UpdateOutcomes :
            /\ handed' = Append(handed, [dir |-> dir, pkg |-> p])
            /\ disk' = Put(disk, dir, update(before, p, outcome))
            /\ idx' = idx + 1
            /\ pc' = AfterDir(versionDirs, idx + 1)
            /\ updated' = IF outcome = "nil" THEN Append(updated, dir) ELSE updated
            /\ UNCHANGED exitMsg
    /\ UNCHANGED <<web, versionDirs, versions, filterVars, mmVars>>

\* one turn of the loop: versions has an entry for dir and update(dir, p) runs
\* on the files the directory holds; disk records the files of the directories
\* update has run on
UpdateDir ==
    /\ pc = "loop"
    /\ versionDirs[idx] \in DOMAIN versions.m
    /\ LET dir == versionDirs[idx]
           p   == versions.m[dir]
       IN \E before \in Priors, outcome \in UpdateOutcomes :
            /\ handed' = Append(handed, [dir |-> dir, pkg |-> p])
            /\ disk' = Put(disk, dir, update(before, p, outcome))
            /\ IF outcome = "nil"
               THEN /\ updated' = Append(updated, dir)
                    /\ idx' = idx + 1
                    /\ pc' = AfterDir(versionDirs, idx + 1)
                    /\ UNCHANGED exitMsg
               ELSE /\ pc' = "exit 1"
                    /\ exitMsg' = [text |-> "error updating", about |-> dir]
                    /\ UNCHANGED <<updated, idx>>
    /\ UNCHANGED <<web, versionDirs, versions, filterVars, mmVars>>

Next == GetDirs \/ GetVersions \/ MissingVersion \/ UpdateDir

Spec == Init /\ [][Next]_vars

\* The program is sequential, so a step that can be taken is taken: weak
\* fairness of each action. The one call that may not return is http.Get, and
\* GetVersions then leaves main at "http.Get" for ever. GetVersions is enabled
\* exactly when pc = "getVersions" and leaves that position, so
\* WF_vars(GetVersions) is []<>(pc # "getVersions"), written so here because
\* TLC evaluates ENABLED GetVersions without sharing subexpressions.
FairSpec ==
    /\ Spec
    /\ WF_vars(GetDirs)
    /\ []<>(pc # "getVersions")
    /\ WF_vars(MissingVersion)
    /\ WF_vars(UpdateDir)

----------------------------------------------------------------------------
(* getVersions on its own, as main calls it, over larger feeds *)

mainIdle ==
    /\ versionDirs = <<>>
    /\ idx = 1
    /\ handed = <<>>
    /\ updated = <<>>
    /\ disk = EmptyMap
    /\ exitMsg = NoMessage

InitVersions ==
    /\ InitWeb(MaxRecords)
    /\ pc = "call getVersions"
    /\ versions = NilVersions
    /\ mainIdle
    /\ harnessIdle

CallGetVersions ==
    /\ pc = "call getVersions"
    /\ LET r == getVersions(currentUrl, <<archiveUrl, eapUrl>>)
       IN IF r.err = Hangs
          THEN pc' = "getVersions hangs" /\ UNCHANGED versions
          ELSE /\ versions' = r.versions
               /\ pc' = IF r.err # NoError THEN "getVersions failed"
                                           ELSE "getVersions returned"
    /\ UNCHANGED <<web, versionDirs, idx, handed, updated, disk, exitMsg,
                   filterVars, mmVars>>

NextVersions == CallGetVersions

SpecVersions == InitVersions /\ [][NextVersions]_vars

----------------------------------------------------------------------------
(* The package filter on its own *)

\* the words the archive URLs under test are made of
Words == {W_crowd, W_software, W_enterprise, W_standalone, W_cluster, W_war,
          W_targz, W_zip, <<"/">>}

RECURSIVE Concat(_)
Concat(ws) == IF ws = <<>> THEN <<>> ELSE Head(ws) \o Concat(Tail(ws))

\* the archive URLs of at most n words
UrlsOf(n) == UNION {{Concat(ws) : ws \in [1..k -> Words]} : k \in 0..n}

noWeb == web = (archiveUrl :> Body(<<>>)) @@ (eapUrl :> Body(<<>>))
                  @@ (currentUrl :> Body(<<>>))

InitFilter ==
    /\ fName \in UrlsOf(MaxWords)
    /\ fKept = FALSE
    /\ pc = "filter"
    /\ noWeb
    /\ versions = NilVersions
    /\ mainIdle
    /\ mmIn = <<>> /\ mmOut = <<>> /\ mmAgain = <<>>

\* fetchLatestTarVersions on a feed of one record whose archive URL is fName
ApplyFilter ==
    /\ pc = "filter"
    /\ fKept' = Kept(fName)
    /\ pc' = "filtered"
    /\ UNCHANGED <<mainVars, fName, mmVars>>

NextFilter == ApplyFilter

SpecFilter == InitFilter /\ [][NextFilter]_vars

----------------------------------------------------------------------------
(* Version.MajorMinor on its own *)

VersionChars == {"4", "3", "1", ".", "-"}

\* the version strings of at most n characters
VersionsOf(n) == UNION {[1..k -> VersionChars] : k \in 0..n}

InitMajorMinor ==
    /\ mmIn \in VersionsOf(MaxVerLen)
    /\ mmOut = <<>>
    /\ mmAgain = <<>>
    /\ pc = "MajorMinor"
    /\ noWeb
    /\ versions = NilVersions
    /\ mainIdle
    /\ fName = <<>> /\ fKept = FALSE

\* majmin := v.MajorMinor()
ApplyMajorMinor ==
    /\ pc = "MajorMinor"
    /\ mmOut' = MajorMinor(mmIn)
    /\ pc' = "MajorMinor again"
    /\ UNCHANGED <<mainVars, filterVars, mmIn, mmAgain>>

\* Version(majmin).MajorMinor()
ReapplyMajorMinor ==
    /\ pc = "MajorMinor again"
    /\ mmAgain' = MajorMinor(mmOut)
    /\ pc' = "MajorMinor done"
    /\ UNCHANGED <<mainVars, filterVars, mmIn, mmOut>>

NextMajorMinor == ApplyMajorMinor \/ ReapplyMajorMinor

SpecMajorMinor == InitMajorMinor /\ [][NextMajorMinor]_vars

----------------------------------------------------------------------------
(* What the claims speak of *)

\* the feeds in the order getVersions(currentUrl, archiveUrl, eapUrl) reads them
Feeds == <<archiveUrl, eapUrl, currentUrl>>

FeedURLs == {archiveUrl, eapUrl, currentUrl}

Returned == pc = "getVersions returned"

\* the records of feed number f that survive the filter, by position
Cand(f) == {i \in 1..Len(web[Feeds[f]].json) : Kept(web[Feeds[f]].json[i].zipUrl)}

Rec(f, i) == web[Feeds[f]].json[i]

KeyOf(f, i) == MajorMinor(Rec(f, i).version)

DateOf(f, i) == ParseTime(Rec(f, i).released).t

\* the candidates for key k in feed number f
CandsIn(f, k) == {i \in Cand(f) : KeyOf(f, i) = k}

\* the candidates for key k: <<feed number, position>>
CandsFor(k) == UNION {{<<f, i>> : i \in CandsIn(f, k)} : f \in 1..Len(Feeds)}

\* the keys of the candidates of feed number f
KeysIn(f) == {KeyOf(f, i) : i \in Cand(f)}

AllKeys == UNION {KeysIn(f) : f \in 1..Len(Feeds)}

Max(S) == CHOOSE x \in S : \A y \in S : y <= x

Min(S) == CHOOSE x \in S : \A y \in S : x <= y

\* the last feed, in reading order, that has a candidate for key k
LastFeedWith(k) == Max({f \in 1..Len(Feeds) : CandsIn(f, k) # {}})

----------------------------------------------------------------------------
(* C1 *)

\* C1, as stated: after getVersions succeeds every key of the mapping holds the
\* package with the latest release date among the candidates with that key of
\* all the feeds together.
C1_LatestOverAllFeeds ==
    Returned =>
      \A k \in DOMAIN versions.m :
        /\ \E c \in CandsFor(k) :
             /\ versions.m[k].ZipURL = Rec(c[1], c[2]).zipUrl
             /\ versions.m[k].Released = DateOf(c[1], c[2])
        /\ \A c \in CandsFor(k) : versions.m[k].Released >= DateOf(c[1], c[2])

\* C1, amended: after getVersions succeeds every key of the mapping holds the
\* package with the latest release date among the candidates with that key of
\* ONE feed, the last feed read (secondary feeds in argument order, then the
\* primary feed) that has a candidate with that key.
C1_LatestWithinLastFeed ==
    Returned =>
      \A k \in DOMAIN versions.m :
        /\ CandsFor(k) # {}
        /\ LET f == LastFeedWith(k)
           IN /\ \E i \in CandsIn(f, k) :
                   /\ versions.m[k].ZipURL = Rec(f, i).zipUrl
                   /\ versions.m[k].Released = DateOf(f, i)
              /\ \A i \in CandsIn(f, k) : versions.m[k].Released >= DateOf(f, i)

\* the primary feed lists 4.3.1 (10-Jan-2021) and then 4.3.2 (01-Mar-2021), a
\* secondary feed a war archive that is newer: 4.3.2 is retained
C1_Witness ==
    /\ Returned
    /\ web[currentUrl].json = <<R431, R432>>
    /\ web[archiveUrl].json = <<R435war>>
    /\ versions.m[D_43].ZipURL = R432.zipUrl
    /\ versions.m[D_43].Released = ParseTime(Mar01).t

----------------------------------------------------------------------------
(* C2 *)

\* C2: when the primary feed and a secondary feed both have a candidate for a
\* key, the entry of that key is marked Latest after getVersions succeeds,
\* whichever of the two has the later date.
C2_PrimaryMarked ==
    Returned =>
      \A k \in KeysIn(3) :
        (\E f \in 1..2 : k \in KeysIn(f)) =>
            k \in DOMAIN versions.m /\ versions.m[k].Latest = TRUE

\* the archived feed has 4.3.2 of March, the current feed 4.3.1 of January
C2_Witness ==
    /\ Returned
    /\ R432 \in {Rec(1, i) : i \in Cand(1)}
    /\ web[currentUrl].json = <<R431>>
    /\ versions.m[D_43].Latest = TRUE

----------------------------------------------------------------------------
(* C8 *)

\* the mapping getVersions gives with the secondary feeds in the other order
Swapped == getVersions(currentUrl, <<eapUrl, archiveUrl>>).versions

\* C8, as stated: the mapping is the same for every order of the secondary feeds.
C8_SecondaryOrderIrrelevant ==
    Returned => Swapped = versions

\* C8, amended: permuting the secondary feeds changes neither the keys of the
\* mapping nor the entry of a key that the primary feed has or that at most one
\* secondary feed has.
C8_OrderIrrelevantUnlessShared ==
    Returned =>
      /\ Swapped.nil = FALSE
      /\ DOMAIN Swapped.m = DOMAIN versions.m
      /\ \A k \in DOMAIN versions.m :
           (k \in KeysIn(3) \/ ~(k \in KeysIn(1) /\ k \in KeysIn(2)))
              => Swapped.m[k] = versions.m[k]

\* every feed has a package for 4.3, each its own
C8_Witness ==
    /\ Returned
    /\ web[archiveUrl].json = <<R431>>
    /\ web[eapUrl].json = <<R432s>>
    /\ web[currentUrl].json = <<R432>>
    /\ Swapped.m[D_43].ZipURL = R432.zipUrl

----------------------------------------------------------------------------
(* C9 *)

\* the candidates for key k that have the latest date of all its candidates
Tied(k) == {c \in CandsFor(k) :
              \A d \in CandsFor(k) : DateOf(c[1], c[2]) >= DateOf(d[1], d[2])}

\* c is read before d
Before(c, d) == c[1] < d[1] \/ (c[1] = d[1] /\ c[2] < d[2])

\* C9, as stated: when several candidates for a key share the latest date, the
\* one read last is retained.
C9_LastOfTieRetained ==
    Returned =>
      \A k \in DOMAIN versions.m :
        Cardinality(Tied(k)) >= 2 =>
          \E c \in Tied(k) :
            /\ \A d \in Tied(k) : d = c \/ Before(d, c)
            /\ versions.m[k].ZipURL = Rec(c[1], c[2]).zipUrl

\* C9, amended: when several candidates for a key share the latest date, the
\* one retained is, in the last feed read that has one of them, the FIRST of
\* them in that feed; unless a feed read after that one has the key, whose own
\* pick is then retained.
C9_FirstOfTieInLastFeedRetained ==
    Returned =>
      \A k \in DOMAIN versions.m :
        Cardinality(Tied(k)) >= 2 =>
          LET f == Max({c[1] : c \in Tied(k)})
              i == Min({c[2] : c \in {d \in Tied(k) : d[1] = f}})
          IN IF LastFeedWith(k) = f
             THEN versions.m[k].ZipURL = Rec(f, i).zipUrl
             ELSE \E j \in CandsIn(LastFeedWith(k), k) :
                    versions.m[k].ZipURL = Rec(LastFeedWith(k), j).zipUrl

\* the current feed lists two packages of 4.3 released the same day
C9_Witness ==
    /\ Returned
    /\ web[currentUrl].json = <<R432, R432s>>
    /\ Cardinality(Tied(D_43)) = 2
    /\ versions.m[D_43].ZipURL = R432.zipUrl

----------------------------------------------------------------------------
(* C10 *)

\* the pick of feed number f for each of its keys
Pick(f) == fetchLatestTarVersions(Feeds[f]).versions

\* C10: after getVersions succeeds the keys of the mapping are the keys of all
\* the feeds; an entry is marked Latest exactly when the primary feed has the
\* key, and is then the primary feed's own pick, whatever the dates of the
\* secondary feeds; any other entry is the pick of the last secondary feed that
\* has the key.
C10_PrimaryPickWins ==
    Returned =>
      /\ DOMAIN versions.m = AllKeys
      /\ \A k \in DOMAIN versions.m :
           /\ versions.m[k].Latest <=> k \in KeysIn(3)
           /\ k \in KeysIn(3) =>
                /\ versions.m[k].ZipURL = Pick(3)[k].ZipURL
                /\ versions.m[k].Released = Pick(3)[k].Released
           /\ k \notin KeysIn(3) =>
                LET f == Max({g \in 1..2 : k \in KeysIn(g)})
                IN /\ versions.m[k].ZipURL = Pick(f)[k].ZipURL
                   /\ versions.m[k].Released = Pick(f)[k].Released

\* the archived feed gives 4.3.1 with "latest": true, no other feed has a
\* package of 4.3, and the entry of 4.3 is marked Latest
C10_FlagFromSecondaryFeed ==
    /\ Returned
    /\ web[archiveUrl].json = <<R431L>>
    /\ D_43 \notin KeysIn(2)
    /\ D_43 \notin KeysIn(3)
    /\ versions.m[D_43].ZipURL = R431.zipUrl
    /\ versions.m[D_43].Latest

----------------------------------------------------------------------------
(* C3 *)

\* the text has no "(" with a ")" after it
NoParenPair(text) ==
    ~\E i, j \in 1..Len(text) : i < j /\ text[i] = "(" /\ text[j] = ")"

\* the feed does not fetch or does not parse
FeedFails(url) ==
    \/ web[url].get = "error"
    \/ web[url].get = "ok" /\ NoParenPair(web[url].text)
    \/ fetchLatestTarVersions(url).err \notin {NoError, Hangs}

\* the server of the feed never answers
FeedSilent(url) == web[url].get = "never"

\* a feed read before feed number f never answers
SilentBefore(f) == \E g \in 1..(f - 1) : FeedSilent(Feeds[g])

\* C3: when a feed fails to fetch or to parse (a body with no parentheses
\* included), getVersions returns no mapping at all and main exits before any
\* directory is handed to update or written; main is short of that exit only
\* when http.Get on a feed read before the failing one has not returned, and
\* then too no directory is handed to update or written.
C3_FeedErrorAborts ==
    \A f \in 1..Len(Feeds) :
      (pc \notin {"getDirs", "getVersions"} /\ FeedFails(Feeds[f])) =>
        /\ pc \in {"exit 1", "http.Get"}
        /\ pc = "http.Get" => SilentBefore(f)
        /\ versions = NilVersions
        /\ pc = "exit 1" =>
              exitMsg.text \in {"error reading atlassian feeds:",
                                "error fetching version dirs:"}
        /\ handed = <<>>
        /\ updated = <<>>
        /\ disk = EmptyMap

\* the archived feed gives a package of a tracked directory, the current feed
\* a body without parentheses
C3_Witness ==
    /\ pc = "exit 1"
    /\ exitMsg.text = "error reading atlassian feeds:"
    /\ web[archiveUrl].json = <<R431>>
    /\ web[currentUrl].text = <<"J">>
    /\ versionDirs = <<D_43, D_44>>
    /\ versions = NilVersions

----------------------------------------------------------------------------
(* C4 *)

\* main has the mapping
Resolved == pc \in {"loop", "exit 0", "exit 1"} /\ ~versions.nil

\* C4: when the loop reaches a directory that is no key of the mapping, main
\* exits at once and names it; neither that directory nor a later one is
\* handed to update.
C4_MissingVersionAborts ==
    \A k \in 1..Len(versionDirs) :
      ( /\ Resolved
        /\ versionDirs[k] \notin DOMAIN versions.m
        /\ \A j \in 1..(k - 1) : versionDirs[j] \in DOMAIN versions.m ) =>
          /\ idx <= k
          /\ pc # "exit 0"
          /\ Len(handed) < k
          /\ \A h \in 1..Len(handed) : \A j \in k..Len(versionDirs) :
                handed[h].dir # versionDirs[j]
          /\ \A j \in k..Len(versionDirs) : versionDirs[j] \notin DOMAIN disk
          /\ idx = k =>
               \/ pc = "loop"
               \/ /\ pc = "exit 1"
                  /\ exitMsg = [text |-> "can't find url for version",
                                about |-> versionDirs[k]]

\* 4.3 is updated, 4.3.5 has no package, and 4.4, which has one, is left alone
C4_Witness ==
    /\ pc = "exit 1"
    /\ versionDirs = <<D_43, V435, D_44>>
    /\ D_44 \in DOMAIN versions.m
    /\ exitMsg = [text |-> "can't find url for version", about |-> V435]
    /\ updated = <<D_43>>
    /\ D_44 \notin DOMAIN disk

----------------------------------------------------------------------------
(* C7 *)

\* the directories handed to update so far
HandedDirs == [h \in 1..Len(handed) |-> handed[h].dir]

\* s is a prefix of t
IsPrefix(s, t) == Len(s) <= Len(t) /\ s = SubSeq(t, 1, Len(s))

Sequential ==
    /\ IsPrefix(HandedDirs, versionDirs)
    /\ IsPrefix(updated, HandedDirs)
    /\ \A h, g \in 1..Len(handed) : h # g => handed[h].dir # handed[g].dir
    /\ \A h \in 1..Len(handed) :
         /\ handed[h].dir \in DOMAIN versions.m
         /\ handed[h].pkg = versions.m[handed[h].dir]
    /\ DOMAIN disk \subseteq {handed[h].dir : h \in 1..Len(handed)}
    /\ \A h \in 1..Len(updated) :
         /\ disk[updated[h]].dockerfile = "written"
         /\ disk[updated[h]].pkg = versions.m[updated[h]]
         /\ disk[updated[h]].entrypoint = "copied"
         /\ disk[updated[h]].mode = "0764"
    /\ pc = "exit 0" => updated = versionDirs
    /\ pc = "exit 1" =>
         /\ updated = SubSeq(versionDirs, 1, idx - 1)
         /\ Len(handed) \in {idx - 1, idx}
         /\ exitMsg # NoMessage

\* C7, as stated: the directories are processed one after the other in
\* getDirs' order: at every moment those handed to update are a prefix of
\* versionDirs, each handed once with its package; the run succeeds with every
\* directory updated or fails with exactly the directories before the failing
\* one updated, nothing undone; and it ends.
C7_SequentialToTheEnd == []Sequential /\ <>(pc \in {"exit 0", "exit 1"})

\* C7, amended: the same order, prefix and outcomes; and the run ends when no
\* feed's server stays silent. A run that does not end is in http.Get for
\* ever, before any directory is handed to update.
C7_SequentialToTheEndUnlessSilent ==
    /\ []Sequential
    /\ (\A url \in FeedURLs : ~FeedSilent(url)) => <>(pc \in {"exit 0", "exit 1"})
    /\ <>(pc \in {"exit 0", "exit 1", "http.Get"})
    /\ [](pc = "http.Get" =>
            /\ \E url \in FeedURLs : FeedSilent(url)
            /\ handed = <<>>
            /\ disk = EmptyMap)

\* 4.3 is updated and the update of 4.4 fails
C7_Witness ==
    /\ pc = "exit 1"
    /\ versionDirs = <<D_43, D_44>>
    /\ exitMsg = [text |-> "error updating", about |-> D_44]
    /\ updated = <<D_43>>
    /\ Len(handed) = 2
    /\ disk[D_43].mode = "0764"
    /\ disk[D_44].dockerfile = "truncated"
    /\ disk[D_44].entrypoint = "absent"

----------------------------------------------------------------------------
(* C5 *)

F_war        == <<"x", "-">> \o W_war \o W_targz
F_enterprise == W_crowd \o <<"-">> \o V431 \o <<"-">> \o W_enterprise \o W_targz
F_standalone == W_crowd \o <<"-">> \o V431 \o <<"-">> \o W_enterprise
                   \o <<"-">> \o W_standalone \o W_targz

\* C5: a record is kept exactly when the last element of its archive URL
\* contains ".tar.gz", contains "standalone" if it contains "enterprise",
\* does not contain "cluster" and does not contain "war".
C5_FourConditions ==
    /\ pc = "filtered" =>
         LET name == Base(fName)
         IN fKept <=> /\ Contains(name, W_targz)
                      /\ Contains(name, W_enterprise) => Contains(name, W_standalone)
                      /\ ~Contains(name, W_cluster)
                      /\ ~Contains(name, W_war)
    /\ (pc = "filtered" /\ (Contains(Base(fName), W_war)
                                \/ Contains(Base(fName), W_cluster))) => ~fKept
    /\ ~Kept(W_software \o <<"/">> \o F_war)
    /\ ~Kept(W_software \o <<"/">> \o F_enterprise)
    /\ Kept(W_software \o <<"/">> \o F_standalone)

\* enterprisestandalone.tar.gz is kept
C5_Witness ==
    /\ pc = "filtered"
    /\ fName = W_enterprise \o W_standalone \o W_targz
    /\ fKept

----------------------------------------------------------------------------
(* C6 *)

\* the positions of the separators of v
Separators(v) == {i \in 1..Len(v) : v[i] \in {".", "-"}}

\* the first two components of v joined by ".", or "0.0" when v has no separator
FirstTwoComponents(v) ==
    IF Separators(v) = {} THEN ZeroZero
    ELSE LET first == Min(Separators(v))
             later == {j \in Separators(v) : j > first}
             stop  == IF later = {} THEN Len(v) + 1 ELSE Min(later)
         IN SubSeq(v, 1, first - 1) \o <<".">> \o SubSeq(v, first + 1, stop - 1)

\* C6: MajorMinor(v) is the first two components of v joined by ".", or "0.0"
\* when v has fewer than two; "4.3.1" and "4.3.1-standalone" give "4.3", "5"
\* gives "0.0"; MajorMinor of its own result is that result.
C6_MajorMinor ==
    /\ pc \in {"MajorMinor again", "MajorMinor done"} =>
            mmOut = FirstTwoComponents(mmIn)
    /\ pc = "MajorMinor done" => mmAgain = mmOut
    /\ MajorMinor(V431) = D_43
    /\ MajorMinor(V431 \o <<"-">> \o W_standalone) = D_43
    /\ MajorMinor(<<"5">>) = ZeroZero

\* 4.3.1 gives 4.3, which gives 4.3
C6_Witness ==
    /\ pc = "MajorMinor done"
    /\ mmIn = V431
    /\ mmOut = D_43
    /\ mmAgain = D_43

====
